---- MODULE Spec2Model ----
(***************************************************************************)
(* Shamir (k, n) secret sharing over a prime field, as implemented by      *)
(* crypto/shamir.rs on top of math/modular.rs and math/polynomial.rs.      *)
(*                                                                         *)
(* Scaling.  The program works in the field of the 257-bit prime PRIME_257 *)
(* and on bytes (base 256).  The model keeps every algorithm as written    *)
(* and replaces only these two magnitudes: the modulus is the prime 5 and  *)
(* a "byte" is a digit of base ByteBase = 2, so that the modulus is three  *)
(* digits long and every secret of at most two digits is below it, the     *)
(* same relation 32-byte keys have to the 33-byte prime.                   *)
(*                                                                         *)
(* A Rust String is a sequence of one-character strings.  A panic of a     *)
(* pure operation is the value Panic, which every operation propagates.    *)
(* A Prime is the value it wraps together with the instance it is, since   *)
(* a ModInteger borrows its prime.                                         *)
(*                                                                         *)
(* Specifications.  Spec steps through split_secret, recover_secret and    *)
(* Cipher::from_shares; SpecRuns holds all runs of one call as sets;       *)
(* SpecMath runs the constructors and operations of ModInteger over primes *)
(* parsed from strings; SpecPoly and SpecLagrange run the two polynomial   *)
(* forms; SpecSplit is split_secret under a fair random source; SpecOrder  *)
(* recovers one collection of shares in every order; SpecFile reads the    *)
(* lines of a shares file as recover_key of lib.rs does.                   *)
(***************************************************************************)
EXTENDS Integers, Sequences, FiniteSets, TLC

\* ---------------------------------------------------------------- sizes
PRIME_257 == 5
RADIX == 36
ByteBase == 2
KeyLen == 2

MaxN == 4
MaxSecretLen == 3
MaxShares == 2
MaxPoints == 3
MaxKnown == 3
MaxOrdered == 3
MaxLines == 2
MaxLineLen == 4

\* ------------------------------------------------------- integer helpers
\* a remainder that takes the sign of the dividend, as Rust's % does
RemEuc_Mutant(a, m) == IF a < 0 THEN 0 - ((0 - a) % m) ELSE a % m

\* rug's rem_euc: the remainder is never negative.
RemEuc(a, m) == a % m

\* rug's Integer::invert: the inverse of v modulo m, or an error (0 is
\* never an inverse) when v and m are not coprime.
Invert(v, m) ==
    LET r == RemEuc(v, m)
    IN  IF \E i \in 1..(m - 1) : (r * i) % m = 1
        THEN CHOOSE i \in 1..(m - 1) : (r * i) % m = 1
        ELSE 0

\* --------------------------------------------------------------- Prime
\* a Prime instance: the value it wraps and which instance it is (the
\* address a `&Prime` points to)
PrimeRef(v, id) == [value |-> v, id |-> id]

PrimeEq_Mutant(p, q) == p = q

\* impl PartialEq for Prime
PrimeEq(p, q) == p.value = q.value

\* no Prime
NoPrime == PrimeRef(-1, -1)

\* --------------------------------------------------------- ModInteger
Panic == [value |-> -1, prime |-> NoPrime]
IsPanic(a) == a.prime = NoPrime

ModInteger(v, p) == [value |-> v, prime |-> p]

\* ModInteger::zero(prime)
Zero(p) == ModInteger(0, p)

\* Field::zero(&self), Field::one(&self)
ZeroOf(a) == IF IsPanic(a) THEN Panic ELSE ModInteger(0, a.prime)
OneOf(a) == IF IsPanic(a) THEN Panic ELSE ModInteger(1, a.prime)

\* impl PartialEq for ModInteger
ModEq(a, b) == a.value = b.value /\ PrimeEq(a.prime, b.prime)

\* panic_if_different_modulus!
DifferentModulus(a, b) == ~PrimeEq(a.prime, b.prime)

\* base_operation!
BaseOperation(lhs, rhs, new_value) ==
    IF DifferentModulus(lhs, rhs)
    THEN Panic
    ELSE ModInteger(RemEuc(new_value, lhs.prime.value), lhs.prime)

\* operation!(Add, add, +)
Add(a, b) ==
    IF IsPanic(a) \/ IsPanic(b) THEN Panic
    ELSE BaseOperation(a, b, a.value + b.value)

\* operation!(Sub, sub, -)
Sub(a, b) ==
    IF IsPanic(a) \/ IsPanic(b) THEN Panic
    ELSE BaseOperation(a, b, a.value - b.value)

\* operation!(Mul, mul, *)
Mul(a, b) ==
    IF IsPanic(a) \/ IsPanic(b) THEN Panic
    ELSE BaseOperation(a, b, a.value * b.value)

\* impl Div: zero check, modulus check, then the inverse, which must exist.
Div(a, b) ==
    IF IsPanic(a) \/ IsPanic(b) THEN Panic
    ELSE IF b.value = 0 THEN Panic
    ELSE IF DifferentModulus(a, b) THEN Panic
    ELSE IF Invert(b.value, b.prime.value) = 0 THEN Panic
    ELSE BaseOperation(a, b, a.value * Invert(b.value, b.prime.value))

\* impl Div<ModInteger> for &ModInteger
DivRV(a, b) ==
    IF IsPanic(a) \/ IsPanic(b) THEN Panic
    ELSE IF b.value = 0 THEN Panic
    ELSE IF DifferentModulus(a, b) THEN Panic
    ELSE IF Invert(b.value, b.prime.value) = 0 THEN Panic
    ELSE BaseOperation(a, b, a.value * Invert(b.value, b.prime.value))

\* impl Div<&ModInteger> for ModInteger (invert_ref!)
DivVR(a, b) ==
    IF IsPanic(a) \/ IsPanic(b) THEN Panic
    ELSE IF b.value = 0 THEN Panic
    ELSE IF DifferentModulus(a, b) THEN Panic
    ELSE IF Invert(b.value, b.prime.value) = 0 THEN Panic
    ELSE BaseOperation(a, b, a.value * Invert(b.value, b.prime.value))

\* impl Div<&ModInteger> for &ModInteger (invert_ref!)
DivRR(a, b) ==
    IF IsPanic(a) \/ IsPanic(b) THEN Panic
    ELSE IF b.value = 0 THEN Panic
    ELSE IF DifferentModulus(a, b) THEN Panic
    ELSE IF Invert(b.value, b.prime.value) = 0 THEN Panic
    ELSE BaseOperation(a, b, a.value * Invert(b.value, b.prime.value))

\* the operand forms of a binary operator: value or reference on each side
Forms == {"vv", "rv", "vr", "rr"}

\* one of the sixteen binary impls: operator op on operands of form form
Binary(op, form, a, b) ==
    CASE op = "+" -> Add(a, b)
      [] op = "-" -> Sub(a, b)
      [] op = "*" -> Mul(a, b)
      [] op = "/" /\ form = "vv" -> Div(a, b)
      [] op = "/" /\ form = "rv" -> DivRV(a, b)
      [] op = "/" /\ form = "vr" -> DivVR(a, b)
      [] op = "/" /\ form = "rr" -> DivRR(a, b)

\* the outcome of a compound assignment: whether it panicked, and the left
\* operand as it is afterwards
Assigned(self) == [panic |-> FALSE, self |-> self]
AssignPanic(self) == [panic |-> TRUE, self |-> self]

\* assign_op!(AddAssign, add_assign, +=): both forms have the same body
AddAssign(a, b) ==
    IF DifferentModulus(a, b) THEN AssignPanic(a)
    ELSE Assigned(ModInteger(RemEuc(a.value + b.value, a.prime.value), a.prime))

\* a -= that subtracts the left operand from the right one
SubAssign_Mutant(a, b) ==
    IF DifferentModulus(a, b) THEN AssignPanic(a)
    ELSE Assigned(ModInteger(RemEuc(b.value - a.value, a.prime.value), a.prime))

\* assign_op!(SubAssign, sub_assign, -=)
SubAssign(a, b) ==
    IF DifferentModulus(a, b) THEN AssignPanic(a)
    ELSE Assigned(ModInteger(RemEuc(a.value - b.value, a.prime.value), a.prime))

\* assign_op!(MulAssign, mul_assign, *=)
MulAssign(a, b) ==
    IF DifferentModulus(a, b) THEN AssignPanic(a)
    ELSE Assigned(ModInteger(RemEuc(a.value * b.value, a.prime.value), a.prime))

\* impl DivAssign for ModInteger: modulus check, zero check, the inverse
\* modulo the right operand's prime, and only then the update of self
DivAssignV(a, b) ==
    IF DifferentModulus(a, b) THEN AssignPanic(a)
    ELSE IF b.value = 0 THEN AssignPanic(a)
    ELSE IF Invert(b.value, b.prime.value) = 0 THEN AssignPanic(a)
    ELSE Assigned(ModInteger(
             RemEuc(a.value * Invert(b.value, b.prime.value), a.prime.value),
             a.prime))

\* impl DivAssign<&ModInteger> for ModInteger
DivAssignR(a, b) ==
    IF DifferentModulus(a, b) THEN AssignPanic(a)
    ELSE IF b.value = 0 THEN AssignPanic(a)
    ELSE IF Invert(b.value, b.prime.value) = 0 THEN AssignPanic(a)
    ELSE Assigned(ModInteger(
             RemEuc(a.value * Invert(b.value, b.prime.value), a.prime.value),
             a.prime))

\* the operand forms of a compound assignment: right operand by value or
\* by reference
AssignForms == {"v", "r"}

\* one of the eight compound-assignment impls
Assign(op, form, a, b) ==
    CASE op = "+" -> AddAssign(a, b)
      [] op = "-" -> SubAssign(a, b)
      [] op = "*" -> MulAssign(a, b)
      [] op = "/" /\ form = "v" -> DivAssignV(a, b)
      [] op = "/" /\ form = "r" -> DivAssignR(a, b)

\* Field::add_inverse: prime - value, stored as it is
AddInverse(a) ==
    IF IsPanic(a) THEN Panic
    ELSE ModInteger(a.prime.value - a.value, a.prime)

\* a mul_inverse that takes a missing inverse for 0
MulInverse_Mutant(a) ==
    IF IsPanic(a) THEN Panic
    ELSE ModInteger(Invert(a.value, a.prime.value), a.prime)

\* Field::mul_inverse: invert!(self), a panic when there is no inverse
MulInverse(a) ==
    IF IsPanic(a) THEN Panic
    ELSE IF Invert(a.value, a.prime.value) = 0 THEN Panic
    ELSE ModInteger(Invert(a.value, a.prime.value), a.prime)

\* ------------------------------------------------------- byte digits
Byte == 0..(ByteBase - 1)

RECURSIVE DigitsValue(_)
\* Integer::from_digits(digits, Order::MsfLe): most significant first.
DigitsValue(digits) ==
    IF Len(digits) = 0 THEN 0
    ELSE DigitsValue(SubSeq(digits, 1, Len(digits) - 1)) * ByteBase
         + digits[Len(digits)]

\* ModInteger::from_digits
FromDigits(digits, p) == ModInteger(RemEuc(DigitsValue(digits), p.value), p)

RECURSIVE ValueDigits(_)
\* Integer::to_digits::<u8>(Order::MsfLe): no leading zero digit, and no
\* digit at all for 0.
ValueDigits(v) ==
    IF v = 0 THEN << >>
    ELSE Append(ValueDigits(v \div ByteBase), v % ByteBase)

\* a to_digits that writes zero as one zero byte
ToDigits_Mutant(a) == IF a.value = 0 THEN << 0 >> ELSE ValueDigits(a.value)

\* ModInteger::to_digits
ToDigits(a) == ValueDigits(a.value)

\* the number of digits of the modulus
PrimeByteLen == Len(ValueDigits(PRIME_257))

\* ------------------------------------------------------- radix strings
DigitChars ==
    << "0", "1", "2", "3", "4", "5", "6", "7", "8", "9", "a", "b", "c", "d",
       "e", "f", "g", "h", "i", "j", "k", "l", "m", "n", "o", "p", "q", "r",
       "s", "t", "u", "v", "w", "x", "y", "z" >>

UpperChars ==
    << "0", "1", "2", "3", "4", "5", "6", "7", "8", "9", "A", "B", "C", "D",
       "E", "F", "G", "H", "I", "J", "K", "L", "M", "N", "O", "P", "Q", "R",
       "S", "T", "U", "V", "W", "X", "Y", "Z" >>

\* the digit a character stands for, or 36 (never below a radix) if none
CharDigit(c) ==
    IF \E i \in 1..36 : DigitChars[i] = c
    THEN (CHOOSE i \in 1..36 : DigitChars[i] = c) - 1
    ELSE IF \E i \in 1..36 : UpperChars[i] = c
    THEN (CHOOSE i \in 1..36 : UpperChars[i] = c) - 1
    ELSE 36

RECURSIVE ValueString(_, _)
\* Integer::to_string_radix for a non-negative value: lower-case digits,
\* no leading zero, "0" for zero.
ValueString(v, radix) ==
    IF v < radix THEN << DigitChars[v + 1] >>
    ELSE Append(ValueString(v \div radix, radix), DigitChars[(v % radix) + 1])

\* ModInteger::to_string_radix
ToStringRadix(a, radix) == ValueString(a.value, radix)

\* rug's ParseIntegerError: its kind is InvalidDigit or NoDigits
ParseFail(kind) == [ok |-> FALSE, value |-> 0, kind |-> kind]

RECURSIVE ParseScan(_, _, _, _, _, _, _)
\* Integer::parse_radix, one character at a time: an optional sign before
\* the first digit, underscores after it, ASCII blanks anywhere, and
\* otherwise digits below the radix; at least one digit is required.  The
\* first character that fits nowhere ends the scan with InvalidDigit; a
\* string that ends without a digit gives NoDigits.
ParseScan(s, i, radix, has_sign, is_negative, has_digits, acc) ==
    IF i > Len(s)
    THEN IF has_digits
         THEN [ok |-> TRUE, value |-> IF is_negative THEN 0 - acc ELSE acc,
               kind |-> ""]
         ELSE ParseFail("NoDigits")
    ELSE LET c == s[i]
         IN  IF c = "+" /\ ~has_sign /\ ~has_digits
             THEN ParseScan(s, i + 1, radix, TRUE, is_negative, has_digits, acc)
             ELSE IF c = "-" /\ ~has_sign /\ ~has_digits
             THEN ParseScan(s, i + 1, radix, TRUE, TRUE, has_digits, acc)
             ELSE IF c = "_" /\ has_digits
             THEN ParseScan(s, i + 1, radix, has_sign, is_negative, has_digits, acc)
             ELSE IF c = " "
             THEN ParseScan(s, i + 1, radix, has_sign, is_negative, has_digits, acc)
             ELSE IF CharDigit(c) >= radix
             THEN ParseFail("InvalidDigit")
             ELSE ParseScan(s, i + 1, radix, has_sign, is_negative, TRUE,
                            acc * radix + CharDigit(c))

IntegerParseRadix(s, radix) == ParseScan(s, 1, radix, FALSE, FALSE, FALSE, 0)

\* a parse_radix that keeps the parsed integer as it is
ParseRadix_Mutant(s, p, radix) ==
    LET r == IntegerParseRadix(s, radix)
    IN  IF r.ok
        THEN [ok |-> TRUE, int |-> ModInteger(r.value, p), kind |-> ""]
        ELSE [ok |-> FALSE, int |-> Panic, kind |-> r.kind]

\* ModInteger::parse_radix: Panic never; an error has ok = FALSE and the
\* kind of the ParseIntegerError, a success carries the reduced ModInteger.
ParseRadix(s, p, radix) ==
    LET r == IntegerParseRadix(s, radix)
    IN  IF r.ok
        THEN [ok |-> TRUE, int |-> ModInteger(RemEuc(r.value, p.value), p),
              kind |-> ""]
        ELSE [ok |-> FALSE, int |-> Panic, kind |-> r.kind]

\* a Prime::parse that only refuses values below 1
PrimeTooSmall_Mutant(v) == v <= 0

\* the condition `value <= 1` of Prime::parse
PrimeTooSmall(v) == v <= 1

\* Prime::parse: the string read as a base-10 integer; an error if that
\* fails or the value is too small, else a new Prime instance (the one
\* named id) wrapping the value.  Nothing checks that it is prime.
PrimeParse(s, id) ==
    LET r == IntegerParseRadix(s, 10)
    IN  IF ~r.ok
        THEN [ok |-> FALSE, kind |-> "ParseIntegerError", prime |-> NoPrime]
        ELSE IF PrimeTooSmall(r.value)
        THEN [ok |-> FALSE, kind |-> "ValueError", prime |-> NoPrime]
        ELSE [ok |-> TRUE, kind |-> "", prime |-> PrimeRef(r.value, id)]

\* Prime::parse(PRIME_257).unwrap() in split_secret and recover_secret
Prime257 == PrimeParse(ValueString(PRIME_257, 10), 0).prime

\* ModInteger::random: every value random_below can return
RandomBelow(p) == {ModInteger(v, p) : v \in 0..(p.value - 1)}

\* ModInteger::parse: parse_radix with radix 10
Parse(s, p) == ParseRadix(s, p, 10)

\* ---------------------------------------------------------- polynomials
\* a constructor that tests the first coefficient instead of the last
CoeffNewPanics_Mutant(coefficients) ==
    \/ Len(coefficients) = 0
    \/ ModEq(coefficients[1], ZeroOf(coefficients[1]))

\* CoeffPolynomial::new panics on an empty list and on a zero last element.
CoeffNewPanics(coefficients) ==
    \/ Len(coefficients) = 0
    \/ ModEq(coefficients[Len(coefficients)], ZeroOf(coefficients[1]))

\* the result of CoeffPolynomial::new: no polynomial after a panic, else
\* the polynomial with the coefficients it holds
NoCoeff == [ok |-> FALSE, coefficients |-> << >>]
CoeffNew(coefficients) ==
    IF CoeffNewPanics(coefficients) THEN NoCoeff
    ELSE [ok |-> TRUE, coefficients |-> coefficients]

RECURSIVE Horner(_, _, _, _)
\* the fold of CoeffPolynomial::eval over coefficients.iter().rev()
Horner(coefficients, i, x, acc) ==
    IF i = 0 THEN acc
    ELSE Horner(coefficients, i - 1, x, Add(Mul(acc, x), coefficients[i]))

\* an eval whose accumulator starts at one
CoeffEval_Mutant(coefficients, x) ==
    << x, Horner(coefficients, Len(coefficients), x, OneOf(coefficients[1])) >>

\* CoeffPolynomial::eval
CoeffEval(coefficients, x) ==
    << x, Horner(coefficients, Len(coefficients), x, ZeroOf(coefficients[1])) >>

RECURSIVE DuplicateScan(_, _, _)
\* the loop of InterpolationPolynomial::new over the map of seen x
DuplicateScan(evaluations, i, seen) ==
    IF i > Len(evaluations) THEN FALSE
    ELSE IF \E s \in seen : ModEq(s, evaluations[i][1]) THEN TRUE
    ELSE DuplicateScan(evaluations, i + 1, seen \cup {evaluations[i][1]})

InterpolationNewFails_Mutant(evaluations) == Len(evaluations) = 0

\* InterpolationPolynomial::new returns a ValueError
InterpolationNewFails(evaluations) ==
    \/ Len(evaluations) = 0
    \/ DuplicateScan(evaluations, 1, {})

RECURSIVE BaseFold(_, _, _, _, _)
\* the fold of eval_base_polynomial over the x_j with j # i
BaseFold(evaluations, x, i, j, acc) ==
    IF j > Len(evaluations) THEN acc
    ELSE IF j = i THEN BaseFold(evaluations, x, i, j + 1, acc)
    ELSE BaseFold(evaluations, x, i, j + 1,
                  Div(Mul(acc, Sub(x, evaluations[j][1])),
                      Sub(evaluations[i][1], evaluations[j][1])))

\* the result of InterpolationPolynomial::new: the error, or the polynomial
\* with the evaluations it holds
NewFailed(kind) == [ok |-> FALSE, kind |-> kind, evaluations |-> << >>]
NewPolynomial(evaluations) ==
    [ok |-> TRUE, kind |-> "", evaluations |-> evaluations]

\* a constructor that aborts on a repeated x
InterpolationNew_Mutant(evaluations) ==
    IF Len(evaluations) = 0 THEN NewFailed("ValueError")
    ELSE IF DuplicateScan(evaluations, 1, {}) THEN NewFailed("Panic")
    ELSE NewPolynomial(evaluations)

\* InterpolationPolynomial::new, and Polynomial::from_evals, which wraps it
InterpolationNew(evaluations) ==
    IF InterpolationNewFails(evaluations) THEN NewFailed("ValueError")
    ELSE NewPolynomial(evaluations)

\* InterpolationPolynomial::eval_base_polynomial
EvalBasePolynomial(evaluations, x, i) ==
    BaseFold(evaluations, x, i, 1, OneOf(evaluations[i][1]))

RECURSIVE LagrangeFold(_, _, _, _)
\* the fold of InterpolationPolynomial::eval over the evaluations
LagrangeFold(evaluations, x, i, acc) ==
    IF i > Len(evaluations) THEN acc
    ELSE LagrangeFold(evaluations, x, i + 1,
                      Add(acc, Mul(evaluations[i][2],
                                   EvalBasePolynomial(evaluations, x, i))))

\* an eval that leaves the first evaluation out of the sum
InterpolationEval_Mutant(evaluations, x) ==
    << x, LagrangeFold(evaluations, x, 2, ZeroOf(evaluations[1][1])) >>

\* InterpolationPolynomial::eval
InterpolationEval(evaluations, x) ==
    << x, LagrangeFold(evaluations, x, 1, ZeroOf(evaluations[1][1])) >>

\* -------------------------------------------------------- recover_secret
Ok(bytes) == [tag |-> "Ok", bytes |-> bytes, detail |-> ""]
Err(kind) == [tag |-> kind, bytes |-> << >>, detail |-> ""]

\* the boxed ParseIntegerError that `?` hands out of recover_secret
ParseErr(kind) == [tag |-> "ParseError", bytes |-> << >>, detail |-> kind]

\* the closure of recover_secret: both strings of one share parsed, x
\* first; the error is the one of the first string that fails
ParseShare(share) ==
    LET x == ParseRadix(share[1], Prime257, RADIX)
        y == ParseRadix(share[2], Prime257, RADIX)
    IN  [ok |-> x.ok /\ y.ok, eval |-> << x.int, y.int >>,
         kind |-> IF ~x.ok THEN x.kind ELSE y.kind]

\* recover_secret: collect stops at the first share that fails to parse
RecoverSecret(shares) ==
    LET parsed == [i \in 1..Len(shares) |-> ParseShare(shares[i])]
        evaluations == [i \in 1..Len(shares) |-> parsed[i].eval]
        failed == {i \in 1..Len(shares) : ~parsed[i].ok}
    IN  IF failed # {}
        THEN ParseErr(parsed[CHOOSE i \in failed : \A j \in failed : i <= j].kind)
        ELSE IF InterpolationNewFails(evaluations)
        THEN Err("ValueError")
        ELSE LET e == InterpolationEval(evaluations, Zero(Prime257))
             IN  IF IsPanic(e[2]) THEN Err("Panic") ELSE Ok(ToDigits(e[2]))

\* Cipher::from_shares: the recovered secret is the key when it has the
\* length of a key; the result stands for the Cipher holding that key
CipherFromShares(shares) ==
    LET key == RecoverSecret(shares)
    IN  IF key.tag # "Ok" THEN key
        ELSE IF Len(key.bytes) # KeyLen THEN Err("CipherError")
        ELSE Ok(key.bytes)

\* ------------------------------------------------------------ the program
VARIABLES pc, secret, n, k, coefficients, random, evaluations, shares,
          result, panic, secret2, views, views2, outcomes,
          pstr, primes, ma, mb, mprev, mop, mctor, minput, mout,
          pcoefs, pevals, ppoly, px, pval, cpoly, line

vars == << pc, secret, n, k, coefficients, random, evaluations, shares,
           result, panic, secret2, views, views2, outcomes,
           pstr, primes, ma, mb, mprev, mop, mctor, minput, mout,
           pcoefs, pevals, ppoly, px, pval, cpoly, line >>

\* the variables of split_secret and recover_secret, pc apart
callVars == << secret, n, k, coefficients, random, evaluations, shares,
               result, panic >>

\* the variables of the arithmetic specification SpecMath
mathVars == << pstr, primes, ma, mb, mprev, mop, mctor, minput, mout >>

\* the variables of the polynomial specification SpecPoly
polyVars == << pcoefs, pevals, ppoly, px, pval, cpoly >>

\* the variable of the shares-file specification SpecFile
fileVars == << line >>

\* the variables of the library and file specifications
libVars == << mathVars, polyVars, fileVars >>

\* the variables of the all-runs specification SpecRuns
runVars == << secret2, views, views2, outcomes >>

\* no ModInteger: the local `random` outside non_zero_random
None == [value |-> 0, prime |-> PrimeRef(0, 0)]

\* no result yet
NoResult == [tag |-> "None", bytes |-> << >>, detail |-> ""]

\* no operation yet
NoOp == [kind |-> "none", op |-> "", form |-> ""]

\* no conversion output yet
NoOut == [tag |-> "none", seq |-> << >>]

\* no interpolation polynomial yet
NoPoly == [ok |-> FALSE, kind |-> "none", evaluations |-> << >>]

\* the library variables before anything happened
LibInit ==
    /\ pstr = << >>
    /\ primes = << >>
    /\ ma = None
    /\ mb = None
    /\ mprev = None
    /\ mop = NoOp
    /\ mctor = ""
    /\ minput = << >>
    /\ mout = NoOut
    /\ pcoefs = << >>
    /\ pevals = << >>
    /\ ppoly = NoPoly
    /\ px = None
    /\ pval = << None, None >>
    /\ cpoly = NoCoeff
    /\ line = << >>

\* the elements ModInteger::random can return
Field == {ModInteger(v, Prime257) : v \in 0..(Prime257.value - 1)}

\* the secrets handed to split_secret
Secrets == UNION {[1..m -> Byte] : m \in 0..MaxSecretLen}

\* every order in which an iterator can yield some of the elements of S
SeqsOver(S) ==
    UNION {{f \in [1..m -> S] : \A i, j \in 1..m : i # j => f[i] # f[j]} :
           m \in 0..Cardinality(S)}

\* share strings handed to recover_secret from outside: well formed ones
\* (among them five spellings of the element 1: plain, with a leading
\* zero, a multiple of the prime away, and a letter in both cases), and
\* malformed ones
InputStrings ==
    { << "1" >>, << "2" >>, << "0", "1" >>, << "6" >>, << "-", "1" >>,
      << "b" >>, << "B" >>, << >>, << "!" >>, << "1", "-" >> }

\* the y strings: two that parse, one with an invalid digit, one empty
InputShares == InputStrings \X { << "3" >>, << "z" >>, << "?" >>, << >> }

InputShareSeqs == UNION {[1..m -> InputShares] : m \in 0..MaxShares}

Init ==
    /\ pc = "idle"
    /\ secret = << >>
    /\ n = 0
    /\ k = 0
    /\ coefficients = << >>
    /\ random = None
    /\ evaluations = {}
    /\ shares = << >>
    /\ result = NoResult
    /\ panic = ""
    /\ secret2 = << >>
    /\ views = {}
    /\ views2 = {}
    /\ outcomes = {}
    /\ LibInit

NCheckFails_Mutant(nn) == nn < 2

\* split_secret, first check
NCheckFails(nn) == nn <= 2

\* split_secret, second check
KCheckFails(nn, kk) == kk = 0 \/ kk > nn

\* the range of `for _ in 1..k - 2`
MiddleRange(kk) == {i \in 1..(kk + 1) : 1 <= i /\ i < kk - 2}

IsZeroDraw_Mutant(r, zero) == FALSE

\* the condition of `while random == *zero`
IsZeroDraw(r, zero) == ModEq(r, zero)

NeedsMore_Mutant(evals, nn) == Cardinality(evals) < nn - 1

\* the condition of `while evaluations.len() < n`
NeedsMore(evals, nn) == Cardinality(evals) < nn

\* split_secret up to the construction loop: the two checks, then the
\* secret as the first coefficient
SplitCallOf(secrets) ==
    /\ pc = "idle"
    /\ \E s \in secrets, nn \in 2..MaxN :
       \E kk \in 0..(nn + 1) :
          /\ secret' = s
          /\ n' = nn
          /\ k' = kk
          /\ IF NCheckFails(nn)
             THEN /\ pc' = "panicked"
                  /\ panic' = "n must be greater than 2"
                  /\ coefficients' = coefficients
             ELSE IF KCheckFails(nn, kk)
             THEN /\ pc' = "panicked"
                  /\ panic' = "k must be in the range 0 < k <= n"
                  /\ coefficients' = coefficients
             ELSE /\ pc' = IF kk > 1 THEN "coeffs" ELSE "poly"
                  /\ panic' = panic
                  /\ coefficients' = << FromDigits(s, Prime257) >>
    /\ UNCHANGED << random, evaluations, shares, result >>
    /\ UNCHANGED runVars
    /\ UNCHANGED libVars

SplitCall == SplitCallOf(Secrets)

\* one iteration of the for loop: a random middle coefficient
PushRandom ==
    /\ pc = "coeffs"
    /\ Len(coefficients) - 1 < Cardinality(MiddleRange(k))
    /\ \E r \in Field : coefficients' = Append(coefficients, r)
    /\ UNCHANGED << pc, secret, n, k, random, evaluations, shares, result,
                    panic >>
    /\ UNCHANGED runVars
    /\ UNCHANGED libVars

\* non_zero_random called for the last coefficient: its first draw
LeadDraw ==
    /\ pc = "coeffs"
    /\ ~(Len(coefficients) - 1 < Cardinality(MiddleRange(k)))
    /\ random' \in Field
    /\ pc' = "lead_nzr"
    /\ UNCHANGED << secret, n, k, coefficients, evaluations, shares, result,
                    panic >>
    /\ UNCHANGED runVars
    /\ UNCHANGED libVars

\* non_zero_random: the body of its while loop
NonZeroRetry ==
    /\ pc \in {"lead_nzr", "eval_nzr"}
    /\ IsZeroDraw(random, Zero(Prime257))
    /\ random' \in Field
    /\ UNCHANGED << pc, secret, n, k, coefficients, evaluations, shares,
                    result, panic >>
    /\ UNCHANGED runVars
    /\ UNCHANGED libVars

\* non_zero_random returns and the last coefficient is pushed
LeadPush ==
    /\ pc = "lead_nzr"
    /\ ~IsZeroDraw(random, Zero(Prime257))
    /\ coefficients' = Append(coefficients, random)
    /\ random' = None
    /\ pc' = "poly"
    /\ UNCHANGED << secret, n, k, evaluations, shares, result, panic >>
    /\ UNCHANGED runVars
    /\ UNCHANGED libVars

\* Polynomial::from_coefficients
BuildPolynomial ==
    /\ pc = "poly"
    /\ IF CoeffNewPanics(coefficients)
       THEN /\ pc' = "panicked"
            /\ panic' = IF Len(coefficients) = 0
                        THEN "Tried to create polynomial with zero elements"
                        ELSE "Last coefficient is zero"
       ELSE /\ pc' = "evals"
            /\ panic' = panic
    /\ UNCHANGED << secret, n, k, coefficients, random, evaluations, shares,
                    result >>
    /\ UNCHANGED runVars
    /\ UNCHANGED libVars

\* the evaluation loop is entered: non_zero_random draws
EvalDraw ==
    /\ pc = "evals"
    /\ NeedsMore(evaluations, n)
    /\ random' \in Field
    /\ pc' = "eval_nzr"
    /\ UNCHANGED << secret, n, k, coefficients, evaluations, shares, result,
                    panic >>
    /\ UNCHANGED runVars
    /\ UNCHANGED libVars

\* a share with its two strings exchanged
ShareOf_Mutant(eval) == << ToStringRadix(eval[2], RADIX), ToStringRadix(eval[1], RADIX) >>

\* the share of one evaluation, both numbers as radix strings
ShareOf(eval) == << ToStringRadix(eval[1], RADIX), ToStringRadix(eval[2], RADIX) >>

\* non_zero_random returns x; the polynomial is evaluated and the share
\* inserted into the set
EvalInsert ==
    /\ pc = "eval_nzr"
    /\ ~IsZeroDraw(random, Zero(Prime257))
    /\ evaluations' = evaluations \cup {ShareOf(CoeffEval(coefficients, random))}
    /\ random' = None
    /\ pc' = "evals"
    /\ UNCHANGED << secret, n, k, coefficients, shares, result, panic >>
    /\ UNCHANGED runVars
    /\ UNCHANGED libVars

\* the loop ends: evaluations.into_iter()
SplitReturn ==
    /\ pc = "evals"
    /\ ~NeedsMore(evaluations, n)
    /\ pc' = "returned"
    /\ UNCHANGED << secret, n, k, coefficients, random, evaluations, shares,
                    result, panic >>
    /\ UNCHANGED runVars
    /\ UNCHANGED libVars

\* recover_secret on some of the returned shares, in any order
RecoverShares ==
    /\ pc = "returned"
    /\ \E seq \in SeqsOver(evaluations) :
          /\ shares' = seq
          /\ result' = RecoverSecret(seq)
    /\ pc' = "recovered"
    /\ UNCHANGED << secret, n, k, coefficients, random, evaluations, panic >>
    /\ UNCHANGED runVars
    /\ UNCHANGED libVars

\* recover_secret on shares that come from outside
RecoverInput ==
    /\ pc = "idle"
    /\ \E seq \in InputShareSeqs :
          /\ shares' = seq
          /\ result' = RecoverSecret(seq)
    /\ pc' = "recovered_input"
    /\ UNCHANGED << secret, n, k, coefficients, random, evaluations, panic >>
    /\ UNCHANGED runVars
    /\ UNCHANGED libVars

\* Cipher::from_shares(cipher.split_key(n, k)): the key is the secret, and
\* the ShareIter yields every share, in the order of its set
FromShares ==
    /\ pc = "returned"
    /\ Len(secret) = KeyLen
    /\ \E seq \in SeqsOver(evaluations) :
          /\ Len(seq) = Cardinality(evaluations)
          /\ shares' = seq
          /\ result' = CipherFromShares(seq)
    /\ pc' = "cipher"
    /\ UNCHANGED << secret, n, k, coefficients, random, evaluations, panic >>
    /\ UNCHANGED runVars
    /\ UNCHANGED libVars

Next ==
    \/ SplitCall
    \/ PushRandom
    \/ LeadDraw
    \/ NonZeroRetry
    \/ LeadPush
    \/ BuildPolynomial
    \/ EvalDraw
    \/ EvalInsert
    \/ SplitReturn
    \/ RecoverShares
    \/ RecoverInput
    \/ FromShares

Spec == Init /\ [][Next]_vars

\* ------------------------------------------- split_secret, fair source
\* the loops read the secret only as a field element: one secret that is
\* zero in the field and one that is not
FairSecrets == {<< >>, << 1 >>}

FairCall == SplitCallOf(FairSecrets)

\* the steps of split_secret alone
NextSplit ==
    \/ FairCall
    \/ PushRandom
    \/ LeadDraw
    \/ NonZeroRetry
    \/ LeadPush
    \/ BuildPolynomial
    \/ EvalDraw
    \/ EvalInsert
    \/ SplitReturn

\* ModInteger::random inside non_zero_random returns v
Draw(v) ==
    /\ LeadDraw \/ NonZeroRetry \/ EvalDraw
    /\ random' = v

\* the steps of split_secret other than the insertion of a share
Running ==
    \/ FairCall
    \/ PushRandom
    \/ LeadDraw
    \/ NonZeroRetry
    \/ LeadPush
    \/ BuildPolynomial
    \/ EvalDraw
    \/ SplitReturn

\* non_zero_random is about to return inside the evaluation loop: the
\* states in which EvalInsert can be taken
InsertReady ==
    /\ pc = "eval_nzr"
    /\ ~IsZeroDraw(random, Zero(Prime257))

\* the call keeps running (weak fairness of every step, the one of
\* EvalInsert written out with InsertReady for its enabling condition),
\* and the random source is fair: an element that can be drawn again and
\* again is drawn again and again
FairSource ==
    /\ WF_vars(Running)
    /\ []<>(~InsertReady) \/ []<><<EvalInsert>>_vars
    /\ \A v \in Field : SF_vars(Draw(v))

SpecSplit == Init /\ [][NextSplit]_vars /\ FairSource

\* ------------------------------------------------- all runs of one call
\* every coefficient list split_secret can hand to from_coefficients for
\* one secret and k: the secret, one random element per iteration of the
\* for loop, and (k > 1) one element that is not a zero draw
SplitPolynomials(s, kk) ==
    LET first == << FromDigits(s, Prime257) >>
        mids == [1..Cardinality(MiddleRange(kk)) -> Field]
        leads == {r \in Field : ~IsZeroDraw(r, Zero(Prime257))}
    IN  IF kk > 1
        THEN {Append(first \o m, l) : m \in mids, l \in leads}
        ELSE {first}

\* every set of shares split_secret(s, n, k) can return: a polynomial it
\* can build without a panic, evaluated at n distinct non-zero draws
SplitShareSets(s, nn, kk) ==
    LET xs == {r \in Field : ~IsZeroDraw(r, Zero(Prime257))}
        polys == {c \in SplitPolynomials(s, kk) : ~CoeffNewPanics(c)}
    IN  {{ShareOf(CoeffEval(c, x)) : x \in X} :
            c \in polys, X \in {Y \in SUBSET xs : Cardinality(Y) = nn}}

\* everything a holder of k - 1 of the shares of one call can see
PartialViews(s, nn, kk) ==
    UNION {{T \in SUBSET S : Cardinality(T) = kk - 1} :
           S \in SplitShareSets(s, nn, kk)}

InitRuns ==
    /\ pc = "runs_idle"
    /\ secret \in Secrets
    /\ secret2 \in Secrets
    /\ n \in 3..MaxN
    /\ k \in 1..MaxN
    /\ k <= n
    /\ coefficients = << >>
    /\ random = None
    /\ evaluations = {}
    /\ shares = << >>
    /\ result = NoResult
    /\ panic = ""
    /\ views = {}
    /\ views2 = {}
    /\ outcomes = {}
    /\ LibInit

\* all runs of split_secret on the two secrets, k - 1 shares taken of each
ExploreSplit ==
    /\ pc = "runs_idle"
    /\ views' = PartialViews(secret, n, k)
    /\ views2' = PartialViews(secret2, n, k)
    /\ pc' = "runs_split"
    /\ UNCHANGED << secret, secret2, n, k, coefficients, random, evaluations,
                    shares, result, panic, outcomes >>
    /\ UNCHANGED libVars

\* recover_secret on every one of these k - 1 shares, in every order
ExploreRecover ==
    /\ pc = "runs_split"
    /\ outcomes' = {RecoverSecret(seq) :
                      seq \in UNION {{q \in SeqsOver(T) : Len(q) = Cardinality(T)} :
                                     T \in views}}
    /\ pc' = "runs_done"
    /\ UNCHANGED << secret, secret2, n, k, coefficients, random, evaluations,
                    shares, result, panic, views, views2 >>
    /\ UNCHANGED libVars

NextRuns ==
    \/ ExploreSplit
    \/ ExploreRecover

SpecRuns == InitRuns /\ [][NextRuns]_vars

\* ------------------------------------------------- modular arithmetic
\* the strings handed to Prime::parse: a prime, a composite, two values
\* that are too small, a negative value, and no integer at all
PrimeStrings ==
    { << "3" >>, << "4" >>, << "1" >>, << "0" >>, << "-", "3" >>, << "x" >> }

\* the strings handed to ModInteger::parse and parse_radix
NumberStrings ==
    { << "0" >>, << "2" >>, << "7" >>, << "-", "3" >>, << "1", "0" >>,
      << "z" >>, << >>, << "?" >> }

\* the parsed primes that exist
OkPrimes == {primes[i].prime : i \in {j \in 1..Len(primes) : primes[j].ok}}

\* the right operands: every value a constructor can return, and the
\* inverses of these values
Operands ==
    LET made == UNION {RandomBelow(q) : q \in OkPrimes}
    IN  made \cup {AddInverse(c) : c \in made}
             \cup ({MulInverse(c) : c \in made} \ {Panic})

MathInit ==
    /\ pc = "math_start"
    /\ secret = << >>
    /\ n = 0
    /\ k = 0
    /\ coefficients = << >>
    /\ random = None
    /\ evaluations = {}
    /\ shares = << >>
    /\ result = NoResult
    /\ panic = ""
    /\ secret2 = << >>
    /\ views = {}
    /\ views2 = {}
    /\ outcomes = {}
    /\ pstr \in PrimeStrings \X PrimeStrings
    /\ primes = << >>
    /\ ma = None
    /\ mb = None
    /\ mprev = None
    /\ mop = NoOp
    /\ mctor = ""
    /\ minput = << >>
    /\ mout = NoOut
    /\ pcoefs = << >>
    /\ pevals = << >>
    /\ ppoly = NoPoly
    /\ px = None
    /\ pval = << None, None >>
    /\ cpoly = NoCoeff
    /\ line = << >>

\* Prime::parse on both strings: two Prime instances, or errors
ParsePrimes ==
    /\ pc = "math_start"
    /\ primes' = << PrimeParse(pstr[1], 1), PrimeParse(pstr[2], 2) >>
    /\ pc' = "math_primes"
    /\ UNCHANGED << pstr, ma, mb, mprev, mop, mctor, minput, mout >>
    /\ UNCHANGED << callVars, runVars, polyVars, fileVars >>

\* a constructor returned the ModInteger a
Constructed(name, input, a) ==
    /\ ma' = a
    /\ mctor' = name
    /\ minput' = input
    /\ pc' = "math"
    /\ UNCHANGED << pstr, primes, mb, mprev, mop, mout >>
    /\ UNCHANGED << callVars, runVars, polyVars, fileVars >>

\* a parsing constructor returned an error
ConstructFailed(name, input) ==
    /\ mctor' = name
    /\ minput' = input
    /\ pc' = "math_parse_error"
    /\ UNCHANGED << pstr, primes, ma, mb, mprev, mop, mout >>
    /\ UNCHANGED << callVars, runVars, polyVars, fileVars >>

\* ModInteger::random
NewRandom ==
    /\ pc = "math_primes"
    /\ \E q \in OkPrimes : \E a \in RandomBelow(q) :
          Constructed("random", << >>, a)

\* ModInteger::parse
NewParse ==
    /\ pc = "math_primes"
    /\ \E q \in OkPrimes : \E str \in NumberStrings :
          IF Parse(str, q).ok
          THEN Constructed("parse", str, Parse(str, q).int)
          ELSE ConstructFailed("parse", str)

\* ModInteger::parse_radix, with the radix of the shares
NewParseRadix ==
    /\ pc = "math_primes"
    /\ \E q \in OkPrimes : \E str \in NumberStrings :
          IF ParseRadix(str, q, RADIX).ok
          THEN Constructed("parse_radix", str, ParseRadix(str, q, RADIX).int)
          ELSE ConstructFailed("parse_radix", str)

\* ModInteger::from_digits
NewFromDigits ==
    /\ pc = "math_primes"
    /\ \E q \in OkPrimes : \E digits \in Secrets :
          Constructed("from_digits", digits, FromDigits(digits, q))

\* ModInteger::zero
NewZero ==
    /\ pc = "math_primes"
    /\ \E q \in OkPrimes : Constructed("zero", << >>, Zero(q))

\* an operation on the receiver ma ended: the operand it took, what it
\* was, the receiver (or the value that takes its place) afterwards
Operated(operation, b, a, panicked) ==
    /\ mprev' = ma
    /\ mb' = b
    /\ mop' = operation
    /\ ma' = a
    /\ mctor' = ""
    /\ minput' = << >>
    /\ mout' = NoOut
    /\ pc' = IF panicked THEN "math_panicked" ELSE "math"
    /\ UNCHANGED << pstr, primes >>
    /\ UNCHANGED << callVars, runVars, polyVars, fileVars >>

\* ma.zero()
ZeroOfAct ==
    /\ pc = "math"
    /\ Operated([kind |-> "zero", op |-> "", form |-> ""], None, ZeroOf(ma), FALSE)

\* ma.one()
OneOfAct ==
    /\ pc = "math"
    /\ Operated([kind |-> "one", op |-> "", form |-> ""], None, OneOf(ma), FALSE)

\* ma op b, in one of the four operand forms; the result takes the place
\* of ma
BinaryAct ==
    /\ pc = "math"
    /\ \E op \in {"+", "-", "*", "/"}, form \in Forms, b \in Operands :
          LET r == Binary(op, form, ma, b)
          IN  Operated([kind |-> "binary", op |-> op, form |-> form], b,
                       IF IsPanic(r) THEN ma ELSE r, IsPanic(r))

\* ma op= b, in one of the two operand forms
AssignAct ==
    /\ pc = "math"
    /\ \E op \in {"+", "-", "*", "/"}, form \in AssignForms, b \in Operands :
          LET r == Assign(op, form, ma, b)
          IN  Operated([kind |-> "assign", op |-> op, form |-> form], b,
                       r.self, r.panic)

\* ma.add_inverse()
AddInverseAct ==
    /\ pc = "math"
    /\ Operated([kind |-> "add_inverse", op |-> "", form |-> ""], None,
                AddInverse(ma), FALSE)

\* ma.mul_inverse()
MulInverseAct ==
    /\ pc = "math"
    /\ LET r == MulInverse(ma)
       IN  Operated([kind |-> "mul_inverse", op |-> "", form |-> ""], None,
                    IF IsPanic(r) THEN ma ELSE r, IsPanic(r))

\* ma == b
CompareAct ==
    /\ pc = "math"
    /\ mop.kind # "eq"
    /\ \E b \in Operands :
          /\ mprev' = ma
          /\ mb' = b
          /\ mop' = [kind |-> "eq", op |-> "", form |-> ""]
          /\ mout' = [tag |-> "bool", seq |-> << ModEq(ma, b) >>]
    /\ UNCHANGED << pc, pstr, primes, ma, mctor, minput >>
    /\ UNCHANGED << callVars, runVars, polyVars, fileVars >>

\* ma.to_digits(), ma as some constructor returned it
ToDigitsAct ==
    /\ pc = "math"
    /\ mctor # ""
    /\ mout = NoOut
    /\ mout' = [tag |-> "digits", seq |-> ToDigits(ma)]
    /\ UNCHANGED << pc, pstr, primes, ma, mb, mprev, mop, mctor, minput >>
    /\ UNCHANGED << callVars, runVars, polyVars, fileVars >>

NextMath ==
    \/ ParsePrimes
    \/ NewRandom
    \/ NewParse
    \/ NewParseRadix
    \/ NewFromDigits
    \/ NewZero
    \/ ZeroOfAct
    \/ OneOfAct
    \/ BinaryAct
    \/ AssignAct
    \/ AddInverseAct
    \/ MulInverseAct
    \/ CompareAct
    \/ ToDigitsAct

SpecMath == MathInit /\ [][NextMath]_vars

\* -------------------------------------------------------- polynomials
\* b to the power e, with b^0 = 1 for every b
RECURSIVE Power(_, _)
Power(b, e) == IF e = 0 THEN 1 ELSE b * Power(b, e - 1)

\* sum of c[i] * x^(i-1) over the integers, c[i] the coefficient of x^(i-1)
RECURSIVE PowerSum(_, _, _)
PowerSum(c, x, i) ==
    IF i > Len(c) THEN 0
    ELSE c[i].value * Power(x.value, i - 1) + PowerSum(c, x, i + 1)

\* the value at x of the polynomial with coefficients c, in the field of x
DirectEval(c, x) == ModInteger(PowerSum(c, x, 1) % x.prime.value, x.prime)

\* the x and the y handed to InterpolationPolynomial::new: x over one Prime
\* instance, over a second instance of the same value and over another
\* value, and the unreduced additive inverse of zero
NewXs ==
    { ModInteger(0, Prime257), ModInteger(1, Prime257),
      ModInteger(2, Prime257), ModInteger(1, PrimeRef(PRIME_257, 1)),
      ModInteger(1, PrimeRef(3, 2)), AddInverse(Zero(Prime257)) }

NewYs == { ModInteger(1, Prime257), ModInteger(2, Prime257) }

NewEvaluations == UNION {[1..m -> NewXs \X NewYs] : m \in 0..MaxPoints}

\* the lists of m field elements, and those without a repetition
FieldSeqs(m) == [1..m -> Field]
DistinctFieldSeqs(m) ==
    {f \in FieldSeqs(m) : \A i, j \in 1..m : i # j => f[i] # f[j]}

PolyInit ==
    /\ pc = "poly_idle"
    /\ secret = << >>
    /\ n = 0
    /\ k = 0
    /\ coefficients = << >>
    /\ random = None
    /\ evaluations = {}
    /\ shares = << >>
    /\ result = NoResult
    /\ panic = ""
    /\ secret2 = << >>
    /\ views = {}
    /\ views2 = {}
    /\ outcomes = {}
    /\ LibInit

\* InterpolationPolynomial::new on a list of evaluations
NewInterpolation ==
    /\ pc = "poly_idle"
    /\ \E evals \in NewEvaluations :
          /\ pevals' = evals
          /\ ppoly' = InterpolationNew(evals)
    /\ pc' = "poly_new"
    /\ UNCHANGED << pcoefs, px, pval, cpoly >>
    /\ UNCHANGED << callVars, runVars, mathVars, fileVars >>

\* InterpolationPolynomial::eval at x, on a polynomial the constructor
\* returned
EvalInterpolation ==
    /\ pc = "poly_new"
    /\ ppoly.ok
    /\ \E x \in Field :
          /\ px' = x
          /\ pval' = InterpolationEval(ppoly.evaluations, x)
          /\ pc' = IF IsPanic(pval'[2]) THEN "poly_eval_panicked"
                   ELSE "poly_eval"
    /\ UNCHANGED << pcoefs, pevals, ppoly, cpoly >>
    /\ UNCHANGED << callVars, runVars, mathVars, fileVars >>

\* the coefficients handed to CoeffPolynomial::new: elements of the field,
\* a zero of another modulus, and the unreduced additive inverse of zero
NewCoefficientValues ==
    { ModInteger(0, Prime257), ModInteger(1, Prime257),
      ModInteger(0, PrimeRef(3, 2)), AddInverse(Zero(Prime257)) }

NewCoefficientLists ==
    UNION {[1..m -> NewCoefficientValues] : m \in 0..MaxPoints}

\* CoeffPolynomial::new, and Polynomial::from_coefficients, which wraps it
NewCoefficients ==
    /\ pc = "poly_idle"
    /\ \E c \in NewCoefficientLists :
          /\ pcoefs' = c
          /\ cpoly' = CoeffNew(c)
          /\ pc' = IF cpoly'.ok THEN "poly_coeff" ELSE "poly_coeff_panicked"
    /\ UNCHANGED << pevals, ppoly, px, pval >>
    /\ UNCHANGED << callVars, runVars, mathVars, fileVars >>

\* CoeffPolynomial::new on a list of coefficients, then eval at x
EvalCoefficients ==
    /\ pc = "poly_idle"
    /\ \E m \in 0..MaxPoints : \E c \in FieldSeqs(m), x \in Field :
          /\ pcoefs' = c
          /\ px' = x
          /\ cpoly' = CoeffNew(c)
          /\ IF cpoly'.ok
             THEN pc' = "poly_horner"
                  /\ pval' = CoeffEval(cpoly'.coefficients, x)
             ELSE pc' = "poly_panicked" /\ pval' = pval
    /\ UNCHANGED << pevals, ppoly >>
    /\ UNCHANGED << callVars, runVars, mathVars, fileVars >>

NextPoly ==
    \/ NewInterpolation
    \/ EvalInterpolation
    \/ NewCoefficients
    \/ EvalCoefficients

SpecPoly == PolyInit /\ [][NextPoly]_vars

\* ------------------------------------------------------- interpolation
\* a polynomial f of degree below m, by its m coefficients
LagrangeInit ==
    /\ pc = "lagrange_idle"
    /\ secret = << >>
    /\ n = 0
    /\ k = 0
    /\ coefficients = << >>
    /\ random = None
    /\ evaluations = {}
    /\ shares = << >>
    /\ result = NoResult
    /\ panic = ""
    /\ secret2 = << >>
    /\ views = {}
    /\ views2 = {}
    /\ outcomes = {}
    /\ pstr = << >>
    /\ primes = << >>
    /\ ma = None
    /\ mb = None
    /\ mprev = None
    /\ mop = NoOp
    /\ mctor = ""
    /\ minput = << >>
    /\ mout = NoOut
    /\ pcoefs \in UNION {FieldSeqs(m) : m \in 1..MaxKnown}
    /\ pevals = << >>
    /\ ppoly = NoPoly
    /\ px = None
    /\ pval = << None, None >>
    /\ cpoly = NoCoeff
    /\ line = << >>

\* f is known at m distinct points, in any order: Polynomial::from_evals
\* on these evaluations, then eval at x
InterpolateKnown ==
    /\ pc = "lagrange_idle"
    /\ \E xs \in DistinctFieldSeqs(Len(pcoefs)), x \in Field :
          LET evals == [i \in 1..Len(pcoefs) |->
                           << xs[i], DirectEval(pcoefs, xs[i]) >>]
          IN  /\ pevals' = evals
              /\ ppoly' = InterpolationNew(pevals')
              /\ px' = x
              /\ pval' = InterpolationEval(ppoly'.evaluations, x)
    /\ pc' = "lagrange_done"
    /\ UNCHANGED << pcoefs, cpoly >>
    /\ UNCHANGED << callVars, runVars, mathVars, fileVars >>

NextLagrange == InterpolateKnown

SpecLagrange == LagrangeInit /\ [][NextLagrange]_vars

\* ------------------------------------------------------------ properties
\* the field element a share string denotes
ShareX(share) == ParseRadix(share[1], Prime257, RADIX).int

\* split_secret has returned its shares
Returned == pc \in {"returned", "recovered"}

\* C1: recover_secret on any k of the shares split_secret(s, n, k) returned
\* gives Ok with exactly the bytes of s, for every s shorter than the prime,
\* leading zero bytes included.
C1_RoundTrip ==
    (pc = "recovered" /\ Len(secret) < PrimeByteLen /\ Len(shares) = k)
        => result = Ok(secret)

\* C2: the polynomial split_secret builds has exactly k coefficients, the
\* first one the secret and the last one non-zero.
C2_ExactlyKCoefficients ==
    pc \in {"evals", "eval_nzr", "returned", "recovered"}
        => /\ Len(coefficients) = k
           /\ coefficients[1] = FromDigits(secret, Prime257)
           /\ coefficients[Len(coefficients)].value # 0

\* C5: recover_secret on any m genuine shares, k <= m <= n, gives Ok with
\* exactly s (s shorter than the prime, as in C1).
C5_OverSupply ==
    (pc = "recovered" /\ Len(secret) < PrimeByteLen /\ Len(shares) >= k)
        => result = Ok(secret)

\* C6: split_secret returns exactly n shares and their x components are
\* pairwise distinct field elements.
C6_ShareCount ==
    Returned
        => /\ Cardinality(evaluations) = n
           /\ \A a, b \in evaluations :
                 a # b => ~ModEq(ShareX(a), ShareX(b))

C6_Witness ==
    /\ pc = "returned"
    /\ n = MaxN
    /\ Cardinality({ShareX(a) : a \in evaluations}) = MaxN

\* C7: no share split_secret collects or returns has x equal to the field
\* zero.
C7_NoZeroX ==
    \A a \in evaluations : ~ModEq(ShareX(a), Zero(Prime257))

C7_Witness ==
    /\ pc = "eval_nzr"
    /\ ModEq(random, Zero(Prime257))
    /\ evaluations # {}

\* C8: split_secret called with n <= 2, k = 0 or k > n panics, and by then
\* no coefficient exists, no random value was drawn and no share was made.
C8_ArgumentPanic ==
    (pc \notin {"idle", "recovered_input"} /\ (n <= 2 \/ k = 0 \/ k > n))
        => /\ pc = "panicked"
           /\ coefficients = << >>
           /\ random = None
           /\ evaluations = {}
           /\ result = NoResult

C8_Witness ==
    /\ pc = "panicked"
    /\ n > 2
    /\ k > n
    /\ coefficients = << >>

\* C9: split_secret never panics when n > 2 and 0 < k <= n, whatever the
\* secret.
C9_Total ==
    (pc # "idle" /\ n > 2 /\ 0 < k /\ k <= n) => pc # "panicked"

\* a share string is a valid radix-36 integer
ValidString(str) == IntegerParseRadix(str, RADIX).ok

\* C10: recover_secret never panics; it returns a parse error if some x or
\* y string is not a valid radix-36 integer, and a ValueError if there is no
\* share or two shares have the same x; in both cases no bytes.
C10_RecoverErrors ==
    pc \in {"recovered", "recovered_input"}
        => LET idx == 1..Len(shares)
               malformed == \E i \in idx : ~ValidString(shares[i][1])
                                           \/ ~ValidString(shares[i][2])
               duplicate == \E i, j \in idx :
                               i # j /\ ModEq(ShareX(shares[i]), ShareX(shares[j]))
           IN  /\ result.tag \in {"Ok", "ParseError", "ValueError"}
               /\ malformed => (result.tag = "ParseError" /\ result.bytes = << >>)
               /\ (~malformed /\ (Len(shares) = 0 \/ duplicate))
                      => result = Err("ValueError")

C10_Witness ==
    /\ pc = "recovered_input"
    /\ Len(shares) = 2
    /\ shares[1][1] # shares[2][1]
    /\ result = Err("ValueError")

\* C3: recover_secret on k - 1 of the shares (k >= 2) always returns Ok,
\* and for some choice of the random coefficients and evaluation points the
\* bytes it returns differ from s.
C3_Insufficiency ==
    (pc = "runs_done" /\ k >= 2)
        => /\ \A o \in outcomes : o.tag = "Ok"
           /\ \E o \in outcomes : o # Ok(secret)

\* C4: any k - 1 shares (k >= 2) that split_secret can produce for s it
\* can also produce for every other secret s'.
C4_ThresholdSecrecy ==
    (pc \in {"runs_split", "runs_done"} /\ k >= 2) => views \subseteq views2

\* the step machine and the all-runs operators describe the same program
RunsAgree ==
    /\ pc \in {"evals", "eval_nzr", "returned", "recovered"}
          => coefficients \in SplitPolynomials(secret, k)
    /\ Returned => evaluations \in SplitShareSets(secret, n, k)

\* what the code does return on k or more genuine shares: s without its
\* leading zero bytes
StrippedRoundTrip ==
    (pc = "recovered" /\ Len(secret) < PrimeByteLen /\ Len(shares) >= k)
        => result = Ok(ToDigits(FromDigits(secret, Prime257)))

\* C15: for every key of the key length, first byte zero or not, and every
\* valid (n, k), Cipher::from_shares on the shares of split_key(n, k)
\* returns Ok with the original key
C15_KeyRoundTrip == pc = "cipher" => result = Ok(secret)

\* what the code does return: the cipher of the key when the key does not
\* start with a zero byte, a CipherError when it does
CipherKeyRoundTrip ==
    pc = "cipher" =>
        result = IF secret[1] # 0 THEN Ok(secret) ELSE Err("CipherError")

\* ------------------------------------------------ properties, arithmetic
\* a ModInteger is in the range of its modulus
InRange(a) == 0 <= a.value /\ a.value < a.prime.value

\* C11: every ModInteger that exists after the constructors and the
\* operations has 0 <= value < prime.value and the prime of its receiver;
\* add_inverse of zero is such an operation
C11_RangeInvariant ==
    pc \in {"math", "math_panicked"} =>
        /\ InRange(ma)
        /\ ma.prime \in OkPrimes
        /\ mop.kind \notin {"none", "eq"} => ma.prime = mprev.prime

\* what the code does keep: the prime, and the range except for the
\* additive inverse of zero, whose value is the modulus itself
ValueWithinModulus ==
    pc \in {"math", "math_panicked"} =>
        /\ 0 <= ma.value /\ ma.value <= ma.prime.value
        /\ ma.prime \in OkPrimes
        /\ mop.kind # "none" => ma.prime = mprev.prime
        /\ ~InRange(ma) =>
              \/ mop.kind = "add_inverse" /\ mprev.value = 0
              \/ mop.kind = "eq" /\ ma = mprev
              \/ pc = "math_panicked" /\ ma = mprev

\* the prime 7 of the documented examples
Seven == PrimeRef(7, 7)

\* the documented examples: over 7, 3 + 5 = 1, 3 - 5 = 5, 3 / 5 = 2
FieldExamples ==
    /\ Add(ModInteger(3, Seven), ModInteger(5, Seven)) = ModInteger(1, Seven)
    /\ Sub(ModInteger(3, Seven), ModInteger(5, Seven)) = ModInteger(5, Seven)
    /\ Div(ModInteger(3, Seven), ModInteger(5, Seven)) = ModInteger(2, Seven)

\* the identities on the operation that has just run, mprev op mb = ma
FieldIdentities ==
    /\ mop.op = "-" => ModEq(ma, Add(mprev, AddInverse(mb)))
    /\ (mop.op = "+" /\ ModEq(mb, ZeroOf(mprev))) => ModEq(ma, mprev)
    /\ (mop.op = "*" /\ ModEq(mb, OneOf(mprev))) => ModEq(ma, mprev)
    /\ (mop.op = "/" /\ mb.value # 0) =>
          ModEq(ma, Mul(mprev, MulInverse(mb)))

\* C12: for all modular integers a, b over the same prime,
\* a - b == a + b.add_inverse(), a + zero == a, a * one == a, and for
\* b != 0, a / b == a * b.mul_inverse(); the examples over 7 hold
C12_FieldAlgebra ==
    /\ FieldExamples
    /\ (/\ pc = "math"
        /\ mop.kind = "binary"
        /\ PrimeEq(mprev.prime, mb.prime)) => FieldIdentities

\* the identities hold for every left operand within the range
FieldAlgebraInRange ==
    /\ FieldExamples
    /\ (/\ pc = "math"
        /\ mop.kind = "binary"
        /\ PrimeEq(mprev.prime, mb.prime)
        /\ InRange(mprev)) => FieldIdentities

\* a binary or compound-assignment operation mprev op mb has just ended
Arithmetic ==
    /\ pc \in {"math", "math_panicked"}
    /\ mop.kind \in {"binary", "assign"}

\* C13: an arithmetic operation between primes of different values panics
\* and leaves no result; between distinct Prime instances of equal value
\* it succeeds (a division, when the divisor has an inverse); two
\* ModIntegers are equal iff their values and their primes' values are
C13_ModulusMismatch ==
    /\ (Arithmetic /\ mprev.prime.value # mb.prime.value) =>
          pc = "math_panicked" /\ ma = mprev
    /\ (/\ Arithmetic
        /\ mprev.prime.value = mb.prime.value
        /\ mprev.prime.id # mb.prime.id
        /\ mop.op = "/" => Invert(mb.value, mb.prime.value) # 0) =>
          pc = "math"
    /\ (pc = "math" /\ mop.kind = "eq") =>
          mout = [tag |-> "bool",
                  seq |-> << mprev.value = mb.value
                             /\ mprev.prime.value = mb.prime.value >>]

\* a /= by reference between 3 and 4 as moduli has panicked
C13_Witness ==
    /\ pc = "math_panicked"
    /\ mop = [kind |-> "assign", op |-> "/", form |-> "r"]
    /\ mprev.prime.value # mb.prime.value
    /\ mb.value # 0

\* C14: each Div variant and each DivAssign variant panics when the right
\* operand is zero, and mul_inverse panics on zero; no value is returned
\* and the left operand of a compound assignment is as it was
C14_DivisionByZero ==
    /\ (Arithmetic /\ mop.op = "/" /\ mb.value = 0) =>
          pc = "math_panicked" /\ ma = mprev
    /\ (/\ pc \in {"math", "math_panicked"}
        /\ mop.kind = "mul_inverse"
        /\ mprev.value = 0) =>
          pc = "math_panicked" /\ ma = mprev

\* a /= by value with a zero right operand of the same modulus has
\* panicked
C14_Witness ==
    /\ pc = "math_panicked"
    /\ mop = [kind |-> "assign", op |-> "/", form |-> "v"]
    /\ PrimeEq(mprev.prime, mb.prime)
    /\ mprev.value # 0
    /\ mb.value = 0

\* to_digits has run on the result of from_digits(minput, prime), and the
\* value of minput is below the prime
DigitsReturned ==
    /\ pc = "math"
    /\ mctor = "from_digits"
    /\ mout.tag = "digits"
    /\ DigitsValue(minput) < ma.prime.value

\* C16: for every byte sequence b whose value is below the prime,
\* from_digits(b, prime).to_digits() == b
C16_DigitsInverse == DigitsReturned => mout.seq = minput

\* what the code does return: b when b does not start with a zero byte
DigitsInverseNoLeadingZero ==
    (DigitsReturned /\ (minput = << >> \/ minput[1] # 0)) => mout.seq = minput

\* Prime::parse has returned for both strings
PrimesParsed == Len(primes) = 2

\* C18: Prime::parse returns an error and no Prime when the string is no
\* base-10 integer or its value is <= 1; otherwise a Prime of exactly that
\* value, prime or not (4 is accepted); Primes are equal iff their values
\* are
C18_PrimeParse ==
    PrimesParsed =>
        /\ \A i \in 1..2 :
              LET r == IntegerParseRadix(pstr[i], 10)
              IN  /\ primes[i].ok <=> (r.ok /\ r.value > 1)
                  /\ primes[i].ok => primes[i].prime.value = r.value
                  /\ ~primes[i].ok =>
                        /\ primes[i].prime = NoPrime
                        /\ primes[i].kind \in {"ParseIntegerError", "ValueError"}
                  /\ pstr[i] = << "4" >> =>
                        primes[i].ok /\ primes[i].prime.value = 4
                  /\ pstr[i] \in {<< "1" >>, << "0" >>, << "-", "3" >>, << "x" >>}
                        => ~primes[i].ok
        /\ (primes[1].ok /\ primes[2].ok) =>
              (PrimeEq(primes[1].prime, primes[2].prime)
                  <=> primes[1].prime.value = primes[2].prime.value)

\* "4" was accepted and "1" was refused
C18_Witness ==
    /\ PrimesParsed
    /\ pstr = << << "4" >>, << "1" >> >>
    /\ primes[1].ok
    /\ ~primes[2].ok

\* ----------------------------------------------- properties, polynomials
\* two of the evaluations handed to the constructor have the same x: the
\* same value under primes of the same value
RepeatedX ==
    \E i, j \in 1..Len(pevals) :
        /\ i < j
        /\ pevals[i][1].value = pevals[j][1].value
        /\ pevals[i][1].prime.value = pevals[j][1].prime.value

\* C17: InterpolationPolynomial::new returns a ValueError, and does not
\* abort, when the list is empty or two evaluations have equal x; otherwise
\* it returns a polynomial holding every evaluation in the given order
C17_DistinctX ==
    pc = "poly_new" =>
        IF pevals = << >> \/ RepeatedX
        THEN ~ppoly.ok /\ ppoly.kind = "ValueError"
        ELSE ppoly.ok /\ ppoly.evaluations = pevals

\* the constructor has refused a list whose first and third x are equal,
\* under two Prime instances of the same value
C17_Witness ==
    /\ pc = "poly_new"
    /\ Len(pevals) = 3
    /\ pevals[1][1] = ModInteger(1, Prime257)
    /\ pevals[2][1] = ModInteger(1, PrimeRef(3, 2))
    /\ pevals[3][1] = ModInteger(1, PrimeRef(PRIME_257, 1))
    /\ ~ppoly.ok

\* the documented example: over 7, the points (1, 3), (2, 0), (3, 6) give
\* 1 at x = 0
LagrangeExample ==
    LET p == PrimeRef(7, 0)
    IN  InterpolationEval(<< << ModInteger(1, p), ModInteger(3, p) >>,
                             << ModInteger(2, p), ModInteger(0, p) >>,
                             << ModInteger(3, p), ModInteger(6, p) >> >>,
                          Zero(p))
            = << Zero(p), ModInteger(1, p) >>

\* C19: for a polynomial f of degree below m and m evaluations of f at
\* distinct x_i, the interpolation-form eval at any x returns (x, f(x))
C19_LagrangeExact ==
    /\ pc = "lagrange_idle" => LagrangeExample
    /\ pc = "lagrange_done" =>
          /\ ppoly.ok
          /\ pval = << px, DirectEval(pcoefs, px) >>

\* three points of a polynomial of degree 2, evaluated at a fourth point
C19_Witness ==
    /\ pc = "lagrange_done"
    /\ Len(pevals) = 3
    /\ pcoefs[3].value # 0
    /\ \A i \in 1..3 : pevals[i][1] # px
    /\ px.value # 0
    /\ pval[2].value # 0

\* the documented example: [1, 1, 3] at x = 1 under the prime 648863
HornerExample ==
    LET p == PrimeRef(648863, 0)
    IN  CoeffEval(<< ModInteger(1, p), ModInteger(1, p), ModInteger(3, p) >>,
                  ModInteger(1, p))
            = << ModInteger(1, p), ModInteger(5, p) >>

\* C20: for every accepted coefficient list [a0, ..., ad] and every x,
\* coefficient-form eval returns (x, a0 + a1*x + ... + ad*x^d mod p); the
\* list [1, 1, 3] gives 5 at x = 1
C20_HornerDirect ==
    /\ HornerExample
    /\ pc = "poly_horner" => pval = << px, DirectEval(pcoefs, px) >>

\* a polynomial of degree 2 with a zero coefficient in the middle was
\* evaluated at 2
C20_Witness ==
    /\ pc = "poly_horner"
    /\ Len(pcoefs) = 3
    /\ pcoefs[1].value = 1
    /\ pcoefs[2].value = 0
    /\ pcoefs[3].value = 3
    /\ px.value = 2
    /\ pval[2].value = 3

\* C21: CoeffPolynomial::new panics iff the list is empty or its last
\* element equals the field zero; every other list, a single non-zero
\* constant too, is accepted and stored as it is
C21_CoeffNew ==
    pc \in {"poly_coeff", "poly_coeff_panicked", "poly_horner",
            "poly_panicked"} =>
        LET last == pcoefs[Len(pcoefs)]
            refused == \/ pcoefs = << >>
                       \/ /\ last.value = 0
                          /\ last.prime.value = pcoefs[1].prime.value
        IN  /\ refused <=> pc \in {"poly_coeff_panicked", "poly_panicked"}
            /\ refused => ~cpoly.ok
            /\ ~refused => cpoly.ok /\ cpoly.coefficients = pcoefs

\* the single constant 1 was accepted
C21_Witness ==
    /\ pc = "poly_coeff"
    /\ pcoefs = << ModInteger(1, Prime257) >>
    /\ cpoly.ok

\* C22: for operands over the same prime and each of + - * /, the four
\* binary forms and the two compound-assignment forms give the same value
\* and prime and panic on the same operands: every form agrees with the
\* outcome of the operation that has just run on mprev and mb
C22_FormsAgree ==
    (Arithmetic /\ PrimeEq(mprev.prime, mb.prime)) =>
        /\ \A form \in Forms :
              LET r == Binary(mop.op, form, mprev, mb)
              IN  IF pc = "math_panicked" THEN IsPanic(r) ELSE r = ma
        /\ \A form \in AssignForms :
              LET r == Assign(mop.op, form, mprev, mb)
              IN  IF pc = "math_panicked" THEN r.panic
                  ELSE ~r.panic /\ r.self = ma

\* a subtraction ref - ref over one modulus whose result depends on the
\* order of the operands
C22_Witness ==
    /\ pc = "math"
    /\ mop = [kind |-> "binary", op |-> "-", form |-> "rr"]
    /\ PrimeEq(mprev.prime, mb.prime)
    /\ mprev.value = 1
    /\ mb.value = 2
    /\ ma.value = mprev.prime.value - 1

\* the integer the input of the constructor that made ma denotes
Denoted ==
    CASE mctor = "parse" -> IntegerParseRadix(minput, 10).value
      [] mctor = "parse_radix" -> IntegerParseRadix(minput, RADIX).value
      [] mctor = "from_digits" -> DigitsValue(minput)

\* v is the Euclidean remainder of a modulo m: 0 <= v < m and a = q*m + v
IsRemainder(v, a, m) ==
    /\ 0 <= v
    /\ v < m
    /\ \E q \in (0 - RADIX)..RADIX : a = q * m + v

\* the documented examples: -3 under 7 is 4, no bytes are 0
ConstructionExamples ==
    /\ Parse(<< "-", "3" >>, PrimeRef(7, 0)).int = ModInteger(4, PrimeRef(7, 0))
    /\ FromDigits(<< >>, PrimeRef(7, 0)) = ModInteger(0, PrimeRef(7, 0))

\* C23: parse, parse_radix and from_digits return the Euclidean remainder
\* modulo the prime of the integer their input denotes, never a negative
\* value; from_digits of no bytes is 0, and from_digits never fails
C23_ConstructionReduces ==
    /\ ConstructionExamples
    /\ (pc = "math" /\ mctor \in {"parse", "parse_radix", "from_digits"}) =>
          IsRemainder(ma.value, Denoted, ma.prime.value)
    /\ pc = "math_parse_error" => mctor \in {"parse", "parse_radix"}

\* "-3" was parsed under the modulus 4
C23_Witness ==
    /\ pc = "math"
    /\ mctor = "parse"
    /\ minput = << "-", "3" >>
    /\ ma.prime.value = 4
    /\ ma.value = 1

\* C24: to_digits returns the minimal big-endian bytes of the value, with
\* no leading zero byte and no byte at all for 0, and from_digits brings
\* every value of [0, prime) back from them
C24_MinimalDigits ==
    (pc = "math" /\ mout.tag = "digits" /\ InRange(ma)) =>
        /\ DigitsValue(mout.seq) = ma.value
        /\ mout.seq # << >> => mout.seq[1] # 0
        /\ ma.value = 0 => mout.seq = << >>
        /\ FromDigits(mout.seq, ma.prime) = ma

\* zero was written as no bytes
C24_Witness ==
    /\ pc = "math"
    /\ mout.tag = "digits"
    /\ ma.value = 0
    /\ mout.seq = << >>

\* the evaluations of the polynomial and the point share one modulus
OneModulus ==
    /\ \A i \in 1..Len(pevals) :
          /\ pevals[i][1].prime.value = px.prime.value
          /\ pevals[i][2].prime.value = px.prime.value

\* C25: eval on an accepted interpolation polynomial whose evaluations
\* share one prime modulus never panics, at any x of the field
C25_NoZeroDivision ==
    (pc \in {"poly_eval", "poly_eval_panicked"} /\ OneModulus) =>
        pc = "poly_eval"

\* what the code does guarantee: no panic when every x is within the range
\* of the modulus
NoZeroDivisionInRange ==
    (/\ pc \in {"poly_eval", "poly_eval_panicked"}
     /\ OneModulus
     /\ \A i \in 1..Len(pevals) : InRange(pevals[i][1])) =>
        pc = "poly_eval"

\* ------------------------------------------------ properties, termination
\* the field has n elements other than zero
EnoughElements == n <= Cardinality(Field) - 1

\* one iteration of the collection loop adds one share or none
AddsAtMostOne ==
    EvalInsert =>
        /\ evaluations \subseteq evaluations'
        /\ Cardinality(evaluations') <= Cardinality(evaluations) + 1

\* neither loop counts its iterations: after a zero draw the retry can
\* always be taken, and below n shares the next draw can always be taken
NoIterationCap ==
    /\ (pc \in {"lead_nzr", "eval_nzr"} /\ IsZeroDraw(random, Zero(Prime257))) =>
          ENABLED NonZeroRetry
    /\ (pc = "evals" /\ NeedsMore(evaluations, n)) => ENABLED EvalDraw

\* C26: under a fair random source and a prime with at least n non-zero
\* elements, non_zero_random returns and the collection loop of
\* split_secret ends with n shares; neither loop has an iteration cap,
\* and an iteration adds a new share or leaves the set as it is
C26_LoopsTerminate ==
    /\ (pc = "lead_nzr") ~> (pc = "poly")
    /\ (pc = "eval_nzr") ~> (pc = "evals")
    /\ (pc = "evals" /\ EnoughElements) ~>
          (pc = "returned" /\ Cardinality(evaluations) = n)
    /\ []NoIterationCap
    /\ [][AddsAtMostOne]_vars

\* the collection loop holds all shares but one and has just drawn zero
C26_Witness ==
    /\ pc = "eval_nzr"
    /\ n = Cardinality(Field) - 1
    /\ Cardinality(evaluations) = n - 1
    /\ random = Zero(Prime257)

\* ------------------------------------------- recover_secret, every order
\* the shares one collection is made of: every non-zero x, and for y two
\* strings that parse, one with an invalid digit and one without digits
OrderShares ==
    { << "1" >>, << "2" >>, << "3" >>, << "4" >> }
        \X { << "3" >>, << "z" >>, << "?" >>, << >> }

\* the collections of at most MaxOrdered shares whose x strings differ
OrderCollections ==
    {S \in SUBSET OrderShares :
        /\ Cardinality(S) <= MaxOrdered
        /\ \A a, b \in S : a # b => a[1] # b[1]}

\* one collection of shares
OrderInit ==
    /\ pc = "order_idle"
    /\ secret = << >>
    /\ n = 0
    /\ k = 0
    /\ coefficients = << >>
    /\ random = None
    /\ evaluations \in OrderCollections
    /\ shares = << >>
    /\ result = NoResult
    /\ panic = ""
    /\ secret2 = << >>
    /\ views = {}
    /\ views2 = {}
    /\ outcomes = {}
    /\ LibInit

\* every order in which an iterator can yield all the elements of S
Orderings(S) == {seq \in SeqsOver(S) : Len(seq) = Cardinality(S)}

\* recover_secret on the collection, in some order
RecoverOrdered ==
    /\ pc = "order_idle"
    /\ \E seq \in Orderings(evaluations) :
          /\ shares' = seq
          /\ result' = RecoverSecret(seq)
          /\ outcomes' = {RecoverSecret(seq)}
    /\ pc' = "ordered"
    /\ UNCHANGED << secret, n, k, coefficients, random, evaluations, panic,
                    secret2, views, views2 >>
    /\ UNCHANGED libVars

\* recover_secret on the same collection, in another order
RecoverReordered ==
    /\ pc \in {"ordered", "reordered"}
    /\ \E seq \in Orderings(evaluations) :
          /\ seq # shares
          /\ shares' = seq
          /\ result' = RecoverSecret(seq)
          /\ outcomes' = outcomes \cup {RecoverSecret(seq)}
    /\ pc' = "reordered"
    /\ UNCHANGED << secret, n, k, coefficients, random, evaluations, panic,
                    secret2, views, views2 >>
    /\ UNCHANGED libVars

NextOrder ==
    \/ RecoverOrdered
    \/ RecoverReordered

SpecOrder == OrderInit /\ [][NextOrder]_vars

\* ---------------------------------------------------- properties, recovery
\* the x strings of the shares parse, to pairwise distinct field elements
DistinctX(seq) ==
    /\ \A i \in 1..Len(seq) : ValidString(seq[i][1])
    /\ \A i, j \in 1..Len(seq) :
          i # j => ~ModEq(ShareX(seq[i]), ShareX(seq[j]))

\* every string of the shares is a radix-36 integer: each share is the
\* text of an evaluation
WellFormed(seq) ==
    \A i \in 1..Len(seq) : ValidString(seq[i][1]) /\ ValidString(seq[i][2])

SameUpToParseError ==
    pc \in {"ordered", "reordered"} =>
        \A o \in outcomes :
           /\ o.tag = result.tag
           /\ o.bytes = result.bytes
           /\ result.tag # "ParseError" => o = result

ElementOf(str) == IntegerParseRadix(str, RADIX).value % PRIME_257

\* two shares of seq have x strings that differ and denote one element
SameElementTwice(seq) ==
    \E i, j \in 1..Len(seq) :
       /\ seq[i][1] # seq[j][1]
       /\ ElementOf(seq[i][1]) = ElementOf(seq[j][1])

\* C28: shares whose x strings differ but denote the same element modulo
\* the prime are rejected by recover_secret with a ValueError; they do not
\* reach the interpolation and its division by zero
C28_DuplicateElements ==
    (/\ pc = "recovered_input"
     /\ WellFormed(shares)
     /\ SameElementTwice(shares)) =>
        result = Err("ValueError")

\* the same letter in both cases, rejected
C28_Witness ==
    /\ pc = "recovered_input"
    /\ Len(shares) = 2
    /\ shares[1][1] = << "b" >>
    /\ shares[2][1] = << "B" >>
    /\ WellFormed(shares)
    /\ result = Err("ValueError")

\* ------------------------------------------------------ properties, shares
\* the share, parsed back with radix 36, is a point of the polynomial with
\* coefficients c
OnPolynomial(share, c) ==
    LET x == ParseRadix(share[1], Prime257, RADIX)
        y == ParseRadix(share[2], Prime257, RADIX)
    IN  /\ x.ok
        /\ y.ok
        /\ y.int = DirectEval(c, x.int)

\* the text of v in radix 36 parses back to v
TextLossless(v) ==
    LET r == IntegerParseRadix(ValueString(v, RADIX), RADIX)
    IN  r.ok /\ r.value = v

\* C29: the shares one call of split_secret returns are points of one
\* polynomial f with f(0) = from_digits(s): each share, parsed back with
\* radix 36, has y = f(x); and the radix-36 text of every field element
\* parses back to that element
C29_ShareConsistency ==
    /\ pc \in {"returned", "recovered", "cipher"} =>
          /\ \A share \in evaluations : OnPolynomial(share, coefficients)
          /\ DirectEval(coefficients, Zero(Prime257)) = FromDigits(secret, Prime257)
          /\ \A v \in Field :
                ParseRadix(ToStringRadix(v, RADIX), Prime257, RADIX).int = v
    /\ pc = "idle" => \A v \in 0..(RADIX * RADIX) : TextLossless(v)

\* split_secret has returned three shares of a polynomial of degree one
\* or more
C29_Witness ==
    /\ pc = "returned"
    /\ Cardinality(evaluations) = 3
    /\ Len(coefficients) >= 2
    /\ \E a, b \in evaluations : a[2] # b[2]

\* ------------------------------------------------- recover_key, the file
\* the characters of a line of the shares file: a digit, the separator and
\* a blank
LineChars == {"1", ":", " "}

\* the lines BufRead::lines can yield
Lines == UNION {[1..m -> LineChars] : m \in 0..MaxLineLen}

RECURSIVE SplitFrom(_, _, _, _)
\* str::split(":") from character i on: cur is the field being read, acc
\* the fields before it; every separator ends a field, the end of the
\* string ends the last one
SplitFrom(str, i, cur, acc) ==
    IF i > Len(str) THEN Append(acc, cur)
    ELSE IF str[i] = ":" THEN SplitFrom(str, i + 1, << >>, Append(acc, cur))
    ELSE SplitFrom(str, i + 1, Append(cur, str[i]), acc)

\* line.split(":").collect()
Split(str) == SplitFrom(str, 1, << >>, << >>)

RECURSIVE TrimStart(_)
TrimStart(str) ==
    IF Len(str) > 0 /\ str[1] = " " THEN TrimStart(Tail(str)) ELSE str

RECURSIVE TrimEnd(_)
TrimEnd(str) ==
    IF Len(str) > 0 /\ str[Len(str)] = " "
    THEN TrimEnd(SubSeq(str, 1, Len(str) - 1))
    ELSE str

\* str::trim
Trim(str) == TrimEnd(TrimStart(str))

\* the closure of recover_key on one line: eval[0] and eval[1] are indexed
\* before the number of fields is looked at, and eval[1] is out of bounds
\* when the line has no separator
ParseLine(l) ==
    LET eval == Split(l)
    IN  IF Len(eval) < 2
        THEN [tag |-> "Panic", share |-> << >>]
        ELSE LET x == Trim(eval[1])
                 y == Trim(eval[2])
             IN  IF Len(x) = 0 \/ Len(y) = 0 \/ Len(eval) # 2
                 THEN [tag |-> "CorruptFileError", share |-> << >>]
                 ELSE [tag |-> "Ok", share |-> << x, y >>]

FileInit ==
    /\ pc = "file_open"
    /\ secret = << >>
    /\ n = 0
    /\ k = 0
    /\ coefficients = << >>
    /\ random = None
    /\ evaluations = {}
    /\ shares = << >>
    /\ result = NoResult
    /\ panic = ""
    /\ secret2 = << >>
    /\ views = {}
    /\ views2 = {}
    /\ outcomes = {}
    /\ LibInit

\* recover_key: collect takes the next line through the closure; a share
\* is pushed, or the error ends the collection, or the closure panics
ReadLine ==
    /\ pc \in {"file_open", "file_reading"}
    /\ Len(shares) < MaxLines
    /\ \E l \in Lines :
          LET r == ParseLine(l)
          IN  /\ line' = l
              /\ IF r.tag = "Ok"
                 THEN /\ shares' = Append(shares, r.share)
                      /\ pc' = "file_reading"
                      /\ UNCHANGED << result, panic >>
                 ELSE IF r.tag = "CorruptFileError"
                 THEN /\ shares' = << >>
                      /\ result' = Err("CorruptFileError")
                      /\ pc' = "file_failed"
                      /\ UNCHANGED panic
                 ELSE /\ shares' = << >>
                      /\ panic' = "index out of bounds"
                      /\ pc' = "file_panicked"
                      /\ UNCHANGED result
    /\ UNCHANGED << secret, n, k, coefficients, random, evaluations >>
    /\ UNCHANGED << runVars, mathVars, polyVars >>

\* recover_key: the file has no more lines and the shares are returned
EndOfFile ==
    /\ pc \in {"file_open", "file_reading"}
    /\ pc' = "file_read"
    /\ UNCHANGED << callVars, runVars, libVars >>

NextFile ==
    \/ ReadLine
    \/ EndOfFile

SpecFile == FileInit /\ [][NextFile]_vars

\* ---------------------------------------------------- properties, the file
\* the positions of the separators of a line
Colons(l) == {i \in 1..Len(l) : l[i] = ":"}

\* t is str without the blanks at its two ends
IsTrimOf(t, str) ==
    \E a \in 1..(Len(str) + 1), b \in 0..Len(str) :
       /\ t = SubSeq(str, a, b)
       /\ \A i \in 1..Len(str) : (i < a \/ i > b) => str[i] = " "
       /\ Len(t) > 0 => (t[1] # " " /\ t[Len(t)] # " ")

\* the text before the first separator and the text after it, up to the
\* second one
FieldX(l) ==
    LET c == CHOOSE i \in Colons(l) : \A j \in Colons(l) : i <= j
    IN  SubSeq(l, 1, c - 1)

FieldY(l) ==
    LET c == CHOOSE i \in Colons(l) : \A j \in Colons(l) : i <= j
        rest == {j \in Colons(l) : j > c}
        d == IF rest = {} THEN Len(l) + 1
             ELSE CHOOSE i \in rest : \A j \in rest : i <= j
    IN  SubSeq(l, c + 1, d - 1)

\* the line has no separator, more than one, or an x or y field that is
\* empty once trimmed
CorruptLine(l) ==
    \/ Cardinality(Colons(l)) # 1
    \/ IsTrimOf(<< >>, FieldX(l))
    \/ IsTrimOf(<< >>, FieldY(l))

\* the closure has just been through the line in `line`
LineRead == pc \in {"file_reading", "file_failed", "file_panicked"}

\* C30: for a line with no colon, more than one colon, or an empty x or y
\* after trimming, recover_key returns a CorruptFileError and does not
\* panic; a well-formed line x:y yields the share (x, y), trimmed
C30_CorruptLines ==
    LineRead =>
        IF CorruptLine(line)
        THEN pc = "file_failed" /\ result = Err("CorruptFileError")
        ELSE /\ pc = "file_reading"
             /\ IsTrimOf(shares[Len(shares)][1], FieldX(line))
             /\ IsTrimOf(shares[Len(shares)][2], FieldY(line))

\* what the code does guarantee: the same, for every line that has a
\* separator
LinesWithColon ==
    (LineRead /\ Colons(line) # {}) =>
        IF CorruptLine(line)
        THEN pc = "file_failed" /\ result = Err("CorruptFileError")
        ELSE /\ pc = "file_reading"
             /\ IsTrimOf(shares[Len(shares)][1], FieldX(line))
             /\ IsTrimOf(shares[Len(shares)][2], FieldY(line))

\* a line without a separator makes the closure panic
LinesWithoutColon ==
    (LineRead /\ Colons(line) = {}) => pc = "file_panicked"

====
